---- MODULE Spec2Model ----
(***************************************************************************)
(* Model of brainda/datasets/tsinghua.py: the Wang2016 and BETA dataset    *)
(* accessors.  data_path (validate, resolve the archive, extract it when   *)
(* the subject's file is missing) runs as a sequence of steps on a shared  *)
(* cache directory; _get_single_subject_data calls it, loads the matrix    *)
(* and reshapes the 4-D tensor into one 2-D recording per block.           *)
(*                                                                         *)
(* Strings are sequences of one-character strings, so that formatting      *)
(* ('{:d}') and slicing (file_dest[:-3]) are computed, not assumed.        *)
(* Arrays are (shape, element-at-index) pairs of operators with 0-based    *)
(* index tuples; a float is a decimal mantissa and exponent, m * 10^e.     *)
(***************************************************************************)
EXTENDS Integers, Sequences, FiniteSets, TLC

VARIABLES
    fs,         \* the cache directory tree: the set of paths that exist
    pc,         \* per caller: position in data_path / _get_single_subject_data
    args,       \* per caller: the call's arguments
    file_dest,  \* per caller: the local variable file_dest of data_path
    log,        \* per caller: the I/O steps this call has performed
    dests,      \* per caller: the path data_path returned
    data,       \* per caller: the loader's local `data` (shape and axis roles)
    sess,       \* per caller: the mapping _get_single_subject_data returned
    err,        \* per caller: the exception the call raised
    returned,   \* history: the successful data_path returns so far
    warm,       \* per caller: what had already returned when this call began
    probe       \* the sample a caller read from a returned recording

vars == <<fs, pc, args, file_dest, log, dests, data, sess, err, returned, warm, probe>>

Callers == {"A", "B"}

(***************************************************************************)
(* Strings                                                                 *)
(***************************************************************************)
DigitChars == <<"0", "1", "2", "3", "4", "5", "6", "7", "8", "9">>

\* '{:d}'.format(n) for n >= 0
RECURSIVE FormatD(_)
FormatD(n) ==
    IF n < 10 THEN <<DigitChars[n + 1]>>
    ELSE FormatD(n \div 10) \o <<DigitChars[(n % 10) + 1]>>

DotMat == <<".", "m", "a", "t">>
Dot7z == <<".", "7", "z">>
DotZip == <<".", "z", "i", "p">>

\* s[:-n] of a Python string
DropLast(s, n) == SubSeq(s, 1, Len(s) - n)

Wang2016_URL == "http://bci.med.tsinghua.edu.cn/upload/yijun/"
BETA_URL == "http://bci.med.tsinghua.edu.cn/upload/liubingchuan/"

\* self.subjects of each dataset
Subjects(ds) == IF ds = "wang2016" THEN 1..35 ELSE 1..70

\* Wang2016.data_path: url = '{:s}S{:d}.mat.7z'.format(Wang2016_URL, subject)
WangUrl(subject) ==
    [base |-> Wang2016_URL, file |-> <<"S">> \o FormatD(subject) \o DotMat \o Dot7z]

\* The chain with `<=` in place of `<`
BetaUrlInclusive(subject) ==
    [base |-> BETA_URL,
     file |->
        IF subject <= 11 THEN <<"S", "1", "-", "S", "1", "0">> \o DotMat \o DotZip
        ELSE IF subject <= 21 THEN <<"S", "1", "1", "-", "S", "2", "0">> \o DotMat \o DotZip
        ELSE IF subject <= 31 THEN <<"S", "2", "1", "-", "S", "3", "0">> \o DotMat \o DotZip
        ELSE IF subject <= 41 THEN <<"S", "3", "1", "-", "S", "4", "0">> \o DotMat \o DotZip
        ELSE IF subject <= 51 THEN <<"S", "4", "1", "-", "S", "5", "0">> \o DotMat \o DotZip
        ELSE IF subject <= 61 THEN <<"S", "5", "1", "-", "S", "6", "0">> \o DotMat \o DotZip
        ELSE <<"S", "6", "1", "-", "S", "7", "0">> \o DotMat \o DotZip]

\* BETA.data_path: the if/elif chain choosing the archive
BetaUrl(subject) ==
    [base |-> BETA_URL,
     file |->
        IF subject < 11 THEN <<"S", "1", "-", "S", "1", "0">> \o DotMat \o DotZip
        ELSE IF subject < 21 THEN <<"S", "1", "1", "-", "S", "2", "0">> \o DotMat \o DotZip
        ELSE IF subject < 31 THEN <<"S", "2", "1", "-", "S", "3", "0">> \o DotMat \o DotZip
        ELSE IF subject < 41 THEN <<"S", "3", "1", "-", "S", "4", "0">> \o DotMat \o DotZip
        ELSE IF subject < 51 THEN <<"S", "4", "1", "-", "S", "5", "0">> \o DotMat \o DotZip
        ELSE IF subject < 61 THEN <<"S", "5", "1", "-", "S", "6", "0">> \o DotMat \o DotZip
        ELSE <<"S", "6", "1", "-", "S", "7", "0">> \o DotMat \o DotZip]

Url(ds, subject) == IF ds = "wang2016" THEN WangUrl(subject) ELSE BetaUrl(subject)

(***************************************************************************)
(* Collaborators: the download/cache resolver and the remote archives      *)
(***************************************************************************)
\* mne_data_path(url, 'tsinghua', ...): the local path of the cached archive
LocalPath(url) == [dir |-> <<"tsinghua", url.base>>, name |-> url.file]

SubjectFile(s) == <<"S">> \o FormatD(s) \o DotMat

\* The remote archives and the entries each holds: one .7z per Wang2016
\* subject holding its .mat file, one .zip per BETA decade holding ten.
RemoteArchives ==
    { [url |-> [base |-> Wang2016_URL, file |-> SubjectFile(s) \o Dot7z],
       entries |-> {SubjectFile(s)}] : s \in 1..35 }
    \cup
    { [url |-> [base |-> BETA_URL,
                file |-> <<"S">> \o FormatD(10 * d + 1) \o <<"-", "S">>
                         \o FormatD(10 * d + 10) \o DotMat \o DotZip],
       entries |-> {SubjectFile(k) : k \in (10 * d + 1)..(10 * d + 10)}] : d \in 0..6 }

Entries(path) ==
    UNION { a.entries : a \in {r \in RemoteArchives : LocalPath(r.url) = path} }

NoPath == [dir |-> <<>>, name |-> <<>>]
NoArgs == [kind |-> "none", ds |-> "none", subject |-> 0, force_update |-> FALSE]
NoData == [shape |-> <<>>, axes |-> <<>>]
NoProbe == [ds |-> "none", run |-> 0, row |-> 0, col |-> 0, val |-> [m |-> 0, e |-> 0]]

(***************************************************************************)
(* data_path                                                               *)
(***************************************************************************)
\* The file whose existence data_path checks and whose path it returns:
\* file_dest[:-3] for Wang2016, os.path.join(parent_dir, 'S{:d}.mat') for BETA
WangTarget(fd) == [dir |-> fd.dir, name |-> DropLast(fd.name, 3)]

BetaTarget(fd, subject) == [dir |-> fd.dir, name |-> <<"S">> \o FormatD(subject) \o DotMat]

Target(ds, fd, subject) ==
    IF ds = "wang2016" THEN WangTarget(fd) ELSE BetaTarget(fd, subject)

\* A check of the lower end of the list only
ValidSubjectLowerOnly(ds, subject) == subject >= 1

\* `if subject not in self.subjects: raise ValueError`
ValidSubject(ds, subject) == subject \in Subjects(ds)

\* History only: whether a return for subject s1 counts as an earlier return
\* for a call for s2 (the same subject, or for BETA the same decade).
Related(ds, s1, s2) ==
    \/ s1 = s2
    \/ ds = "beta" /\ (s1 - 1) \div 10 = (s2 - 1) \div 10

\* Entry of a call: the argument check that opens data_path.  The loader
\* starts with `dests = self.data_path(subject)`, so it enters the same way.
Begin(p, kind, ds, subject, force_update) ==
    /\ pc[p] = "idle"
    /\ args' = [args EXCEPT ![p] = [kind |-> kind, ds |-> ds, subject |-> subject,
                                    force_update |-> force_update]]
    /\ warm' = [warm EXCEPT ![p] = {r \in returned : r.ds = ds
                                        /\ Related(ds, r.subject, subject)}]
    /\ IF ValidSubject(ds, subject)
       THEN /\ pc' = [pc EXCEPT ![p] = "resolve"]
            /\ err' = err
       ELSE /\ pc' = [pc EXCEPT ![p] = "raised"]
            /\ err' = [err EXCEPT ![p] = "ValueError"]
    /\ UNCHANGED <<fs, file_dest, log, dests, data, sess, returned, probe>>

\* file_dest = mne_data_path(url, 'tsinghua', ...): the archive is fetched
\* when it is not cached or force_update is set, and the fetch can fail.
Resolve(p) ==
    /\ pc[p] = "resolve"
    /\ LET url == Url(args[p].ds, args[p].subject)
           fd == LocalPath(url)
           fetch == args[p].force_update \/ fd \notin fs
       IN /\ log' = [log EXCEPT ![p] = Append(@, "resolve")]
          /\ \/ /\ fetch => \E a \in RemoteArchives : a.url = url
                /\ fs' = fs \cup {fd}
                /\ file_dest' = [file_dest EXCEPT ![p] = fd]
                /\ pc' = [pc EXCEPT ![p] = "check"]
                /\ err' = err
             \/ /\ fetch
                /\ pc' = [pc EXCEPT ![p] = "raised"]
                /\ err' = [err EXCEPT ![p] = "DownloadError"]
                /\ UNCHANGED <<fs, file_dest>>
    /\ UNCHANGED <<args, dests, data, sess, returned, warm, probe>>

\* The `return dests` of data_path; the loader goes on to loadmat.
ReturnPath(p, path) ==
    /\ dests' = [dests EXCEPT ![p] = path]
    /\ returned' = returned \cup {[ds |-> args[p].ds, subject |-> args[p].subject,
                                   path |-> path]}
    /\ pc' = [pc EXCEPT ![p] = IF args[p].kind = "load" THEN "loadmat" ELSE "returned"]

\* The test the wrong way round: `if os.path.exists(<target>)`
ExistsInverted(p) ==
    /\ pc[p] = "check"
    /\ log' = [log EXCEPT ![p] = Append(@, "exists")]
    /\ LET target == Target(args[p].ds, file_dest[p], args[p].subject)
       IN IF target \in fs
          THEN /\ pc' = [pc EXCEPT ![p] = "extract"]
               /\ UNCHANGED <<dests, returned>>
          ELSE ReturnPath(p, target)
    /\ UNCHANGED <<fs, args, file_dest, data, sess, err, warm, probe>>

\* The check held back while another caller extracts
ExistsLocked(p) ==
    /\ pc[p] = "check"
    /\ \A q \in Callers \ {p} : pc[q] # "extract"
    /\ log' = [log EXCEPT ![p] = Append(@, "exists")]
    /\ LET target == Target(args[p].ds, file_dest[p], args[p].subject)
       IN IF target \notin fs
          THEN /\ pc' = [pc EXCEPT ![p] = "extract"]
               /\ UNCHANGED <<dests, returned>>
          ELSE ReturnPath(p, target)
    /\ UNCHANGED <<fs, args, file_dest, data, sess, err, warm, probe>>

\* `if not os.path.exists(<target>)`: taken branch goes to the extraction,
\* the other one straight to the return.
Exists(p) ==
    /\ pc[p] = "check"
    /\ log' = [log EXCEPT ![p] = Append(@, "exists")]
    /\ LET target == Target(args[p].ds, file_dest[p], args[p].subject)
       IN IF target \notin fs
          THEN /\ pc' = [pc EXCEPT ![p] = "extract"]
               /\ UNCHANGED <<dests, returned>>
          ELSE ReturnPath(p, target)
    /\ UNCHANGED <<fs, args, file_dest, data, sess, err, warm, probe>>

\* `archive.extractall(path=parent)`: every entry lands in the archive's
\* directory, then data_path returns.
Extract(p) ==
    /\ pc[p] = "extract"
    /\ log' = [log EXCEPT ![p] = Append(@, "extract")]
    /\ fs' = fs \cup {[dir |-> file_dest[p].dir, name |-> e] : e \in Entries(file_dest[p])}
    /\ ReturnPath(p, Target(args[p].ds, file_dest[p], args[p].subject))
    /\ UNCHANGED <<args, file_dest, data, sess, err, warm, probe>>

(***************************************************************************)
(* _get_single_subject_data: the tensor                                    *)
(***************************************************************************)
NChan == 64         \* channels of the on-disk tensor
NumClasses == 40    \* np.arange(1, 41)
StimOnset == 125    \* stim[0, 125]
NTime == 127        \* time points per trial of the modelled files
WangBlocks == 2     \* blocks of the modelled Wang2016 file
BetaBlocks == 3     \* blocks of the modelled BETA file

\* The integer n as a float
FromInt(n) == [m |-> n, e |-> 0]

\* x * 1e-6
Times1em6(x) == [m |-> x.m, e |-> IF x.m = 0 THEN 0 ELSE x.e - 6]

\* The documented on-disk layout: [64, 1500, 40, 6] = electrode, time point,
\* target, block for Wang2016; channel x time point x block x condition for BETA
DiskShape(ds) ==
    IF ds = "wang2016" THEN <<NChan, NTime, NumClasses, WangBlocks>>
    ELSE <<NChan, NTime, BetaBlocks, NumClasses>>

DiskAxes(ds) ==
    IF ds = "wang2016" THEN <<"channel", "time", "class", "block">>
    ELSE <<"channel", "time", "block", "class">>

\* C-order flat offset of a 0-based index tuple
RECURSIVE Ravel(_, _)
Ravel(idx, shape) ==
    IF Len(idx) = 0 THEN 0
    ELSE Ravel(DropLast(idx, 1), DropLast(shape, 1)) * shape[Len(shape)] + idx[Len(idx)]

\* The 0-based index tuple of a C-order flat offset
RECURSIVE Unravel(_, _)
Unravel(flat, shape) ==
    IF Len(shape) = 0 THEN <<>>
    ELSE Unravel(flat \div shape[Len(shape)], DropLast(shape, 1))
            \o <<flat % shape[Len(shape)]>>

RECURSIVE Product(_)
Product(shape) == IF Len(shape) = 0 THEN 1 ELSE shape[1] * Product(Tail(shape))

\* loadmat(dests[0][0])['data']: the samples on disk, in microvolts.  Every
\* cell holds a value of its own, so a misplaced sample is a wrong value.
RawMat(ds, idx) == FromInt(1 + Ravel(idx, DiskShape(ds)))

\* epoch_data = raw_mat['data'] * 1e-6
EpochData(ds, idx) == Times1em6(RawMat(ds, idx))

\* np.tile(np.arange(1, 41)[:, np.newaxis], (1, epoch_data.shape[-1]))
WangTileShape == <<NumClasses, DiskShape("wang2016")[4]>>

WangTile(i, j) == i + 1

\* The labels laid along the other axis of the tile
BetaTileByRow(i, j) == i + 1

\* np.tile(np.arange(1, 41), (epoch_data.shape[-2], 1))
BetaTileShape == <<DiskShape("beta")[3], NumClasses>>

BetaTile(i, j) == j + 1

TileShape(ds) == IF ds = "wang2016" THEN WangTileShape ELSE BetaTileShape

Tile(ds, i, j) == IF ds = "wang2016" THEN WangTile(i, j) ELSE BetaTile(i, j)

\* stim = np.zeros((1, *epoch_data.shape[1:])); stim[0, 125] = <tile>
StimShape(ds) == <<1>> \o Tail(DiskShape(ds))

Stim(ds, idx) ==
    IF idx[1] = 0 /\ idx[2] = StimOnset THEN FromInt(Tile(ds, idx[3], idx[4]))
    ELSE FromInt(0)

\* The assignment stim[0, 125] = <tile> needs the tile to have the shape of
\* the slice it fills
TileFits(ds) == TileShape(ds) = SubSeq(StimShape(ds), 3, 4)

\* The tensor without the stimulus row
ConcatShapeNoStim(ds) == DiskShape(ds)

\* epoch_data = np.concatenate((epoch_data, stim), axis=0)
ConcatShape(ds) == <<DiskShape(ds)[1] + StimShape(ds)[1]>> \o Tail(DiskShape(ds))

Concat(ds, idx) ==
    IF idx[1] < DiskShape(ds)[1] THEN EpochData(ds, idx)
    ELSE Stim(ds, <<idx[1] - DiskShape(ds)[1], idx[2], idx[3], idx[4]>>)

\* Another order of the last three axes
PermRotated == <<0, 2, 3, 1>>

\* The axes argument of np.transpose
Perm == <<0, 3, 2, 1>>

\* np.transpose(a, axes): axis k of the result is axis axes[k] of a
Permute(seq, axes) == [k \in 1..Len(seq) |-> seq[axes[k] + 1]]

\* The index into a of the element np.transpose(a, axes) holds at idx
TransposeSource(idx, axes) ==
    [a \in 1..Len(idx) |-> idx[CHOOSE k \in 1..Len(axes) : axes[k] + 1 = a]]

\* data = np.transpose(epoch_data, (0, 3, 2, 1))
DataShape(ds) == Permute(ConcatShape(ds), Perm)

DataAxes(ds) == Permute(DiskAxes(ds), Perm)

Data(ds, idx) == Concat(ds, TransposeSource(idx, Perm))

\* BETA's loop on Wang2016's axis
BetaLoopAxisAsWang == 0 + 1

\* The axis the run loop walks: data.shape[1] and data[:, i, ...] for
\* Wang2016, data.shape[-2] and data[..., i, :] for BETA (0-based)
WangLoopAxis == 1

BetaLoopAxis == Len(DataShape("beta")) - 2

LoopAxis(ds) == IF ds = "wang2016" THEN WangLoopAxis ELSE BetaLoopAxis

NumRuns(ds) == DataShape(ds)[LoopAxis(ds) + 1]

\* The shape and the elements of data with index i fixed on the loop axis
RemoveAt(seq, axis) == SubSeq(seq, 1, axis) \o SubSeq(seq, axis + 2, Len(seq))

InsertAt(seq, axis, x) == SubSeq(seq, 1, axis) \o <<x>> \o SubSeq(seq, axis + 1, Len(seq))

SliceShape(ds) == RemoveAt(DataShape(ds), LoopAxis(ds))

Slice(ds, i, idx) == Data(ds, InsertAt(idx, LoopAxis(ds), i))

\* np.reshape(<slice>, (data.shape[0], -1)): rows and columns of one run
RunShape(ds) ==
    <<DataShape(ds)[1], Product(SliceShape(ds)) \div DataShape(ds)[1]>>

Run(ds, i, row, col) ==
    Slice(ds, i, Unravel(Ravel(<<row, col>>, RunShape(ds)), SliceShape(ds)))

(***************************************************************************)
(* _get_single_subject_data: the channel layout and the recordings         *)
(***************************************************************************)
\* _CHANNELS, the same list in both classes (every name is already upper
\* case, so ch_name.upper() leaves it as it is)
CHANNELS ==
    <<"FP1", "FPZ", "FP2", "AF3", "AF4", "F7", "F5", "F3", "F1",
      "FZ", "F2", "F4", "F6", "F8", "FT7", "FC5", "FC3", "FC1",
      "FCZ", "FC2", "FC4", "FC6", "FT8", "T7", "C5", "C3", "C1",
      "CZ", "C2", "C4", "C6", "T8", "TP7", "CP5", "CP3", "CP1",
      "CPZ", "CP2", "CP4", "CP6", "TP8", "P7", "P5", "P3", "P1",
      "PZ", "P2", "P4", "P6", "P8", "PO7", "PO5", "PO3", "POZ",
      "PO4", "PO6", "PO8", "O1", "OZ", "O2">>

\* list.insert(i, x) with 0 <= i
ListInsert(seq, i, x) ==
    IF i >= Len(seq) THEN Append(seq, x)
    ELSE SubSeq(seq, 1, i) \o <<x>> \o SubSeq(seq, i + 1, Len(seq))

\* seq[i] = x of a Python list, i negative counting from the end
ListSet(seq, i, x) == [seq EXCEPT ![IF i < 0 THEN Len(seq) + i + 1 ELSE i + 1] = x]

\* The list without the appended CB2
ChNamesNoCB2 ==
    ListInsert(ListInsert(ListInsert(CHANNELS, 32, "M1"), 42, "M2"), 59, "CB1")
        \o <<"STI 014">>

\* ch_names: three inserts, then + ['CB2', 'STI 014']
ChNames ==
    ListInsert(ListInsert(ListInsert(CHANNELS, 32, "M1"), 42, "M2"), 59, "CB1")
        \o <<"CB2", "STI 014">>

\* 'misc' on the two reference channels instead
ChTypesOnReferences ==
    ListSet(ListSet(ListSet([k \in 1..65 |-> "eeg"], 32, "misc"), 42, "misc"),
            -1, "stim")

\* ['eeg']*65
NumTypes == 65

\* ch_types[59] = 'misc'; ch_types[63] = 'misc'; ch_types[-1] = 'stim'
ChTypes ==
    ListSet(ListSet(ListSet([k \in 1..NumTypes |-> "eeg"], 59, "misc"), 63, "misc"),
            -1, "stim")

\* 'run_{:d}'.format(i)
RunKey(i) == <<"r", "u", "n", "_">> \o FormatD(i)

\* runs: one RawArray per index of the loop axis, all sharing info
Runs(ds) ==
    { [key |-> RunKey(i), index |-> i, shape |-> RunShape(ds),
       ch_names |-> ChNames, ch_types |-> ChTypes] : i \in 0..(NumRuns(ds) - 1) }

\* sess = {'session_0': runs}
Session(ds) == { [key |-> "session_0", runs |-> Runs(ds)] }

\* create_info wants one type per name and RawArray one data row per name
InfoFits(ds) == Len(ChNames) = Len(ChTypes) /\ Len(ChNames) = RunShape(ds)[1]

\* Everything of _get_single_subject_data after data_path has returned:
\* loadmat, scaling, the stimulus row, the transposition, the channel
\* layout and the runs.
Load(p) ==
    /\ pc[p] = "loadmat"
    /\ log' = [log EXCEPT ![p] = Append(@, "load")]
    /\ IF dests[p] \notin fs
       THEN /\ pc' = [pc EXCEPT ![p] = "raised"]
            /\ err' = [err EXCEPT ![p] = "FileNotFoundError"]
            /\ UNCHANGED <<data, sess>>
       ELSE IF ~TileFits(args[p].ds) \/ ~InfoFits(args[p].ds)
       THEN /\ pc' = [pc EXCEPT ![p] = "raised"]
            /\ err' = [err EXCEPT ![p] = "ValueError"]
            /\ UNCHANGED <<data, sess>>
       ELSE /\ pc' = [pc EXCEPT ![p] = "done"]
            /\ data' = [data EXCEPT ![p] = [shape |-> DataShape(args[p].ds),
                                            axes |-> DataAxes(args[p].ds)]]
            /\ sess' = [sess EXCEPT ![p] = Session(args[p].ds)]
            /\ err' = err
    /\ UNCHANGED <<fs, args, file_dest, dests, returned, warm, probe>>

\* The sample at (row, col) of run i of the mapping the loader returned
ReadSample(p, i, row, col) ==
    /\ pc[p] = "done"
    /\ \E s \in sess[p] : \E r \in s.runs :
          r.index = i /\ row < r.shape[1] /\ col < r.shape[2]
    /\ probe' = [ds |-> args[p].ds, run |-> i, row |-> row, col |-> col,
                 val |-> Run(args[p].ds, i, row, col)]
    /\ pc' = [pc EXCEPT ![p] = "read"]
    /\ UNCHANGED <<fs, args, file_dest, log, dests, data, sess, err, returned, warm>>

\* The caller takes the result (or the exception) and may call again.
Finish(p) ==
    /\ pc[p] \in {"returned", "raised", "done", "read"}
    /\ pc' = [pc EXCEPT ![p] = "idle"]
    /\ args' = [args EXCEPT ![p] = NoArgs]
    /\ file_dest' = [file_dest EXCEPT ![p] = NoPath]
    /\ log' = [log EXCEPT ![p] = <<>>]
    /\ dests' = [dests EXCEPT ![p] = NoPath]
    /\ data' = [data EXCEPT ![p] = NoData]
    /\ sess' = [sess EXCEPT ![p] = {}]
    /\ err' = [err EXCEPT ![p] = "none"]
    /\ warm' = [warm EXCEPT ![p] = {}]
    /\ probe' = NoProbe
    /\ UNCHANGED <<fs, returned>>

Init ==
    /\ fs = {}
    /\ pc = [p \in Callers |-> "idle"]
    /\ args = [p \in Callers |-> NoArgs]
    /\ file_dest = [p \in Callers |-> NoPath]
    /\ log = [p \in Callers |-> <<>>]
    /\ dests = [p \in Callers |-> NoPath]
    /\ data = [p \in Callers |-> NoData]
    /\ sess = [p \in Callers |-> {}]
    /\ err = [p \in Callers |-> "none"]
    /\ returned = {}
    /\ warm = [p \in Callers |-> {}]
    /\ probe = NoProbe

\* The user removes the cache directory between calls.
ClearCache ==
    /\ \A p \in Callers : pc[p] = "idle"
    /\ fs # {}
    /\ fs' = {}
    /\ returned' = {}
    /\ UNCHANGED <<pc, args, file_dest, log, dests, data, sess, err, warm, probe>>

Datasets == {"wang2016", "beta"}

Kinds == {"data_path", "load"}

\* Subject ids a caller may pass: every id of the dataset and the ids next
\* to both ends of the list
AnySubject(ds) == IF ds = "wang2016" THEN 0..36 ELSE 0..71

\* One caller, one call at a time, each on an empty cache directory
Next ==
    \/ \E kind \in Kinds, ds \in Datasets, f \in BOOLEAN :
          \E s \in AnySubject(ds) : fs = {} /\ Begin("A", kind, ds, s, f)
    \/ Resolve("A")
    \/ Exists("A")
    \/ Extract("A")
    \/ Load("A")
    \/ Finish("A")
    \/ ClearCache

Spec == Init /\ [][Next]_vars

\* Two callers sharing one cache directory that is never cleared
SharedSubjects(ds) == IF ds = "wang2016" THEN {1, 2} ELSE {9, 10, 11}

NextShared ==
    \E p \in Callers :
        \/ \E ds \in Datasets, f \in BOOLEAN :
              \E s \in SharedSubjects(ds) : Begin(p, "data_path", ds, s, f)
        \/ Resolve(p)
        \/ Exists(p)
        \/ Extract(p)
        \/ Finish(p)

SpecShared == Init /\ [][NextShared]_vars

\* One caller loading a subject and reading samples of the recordings: the
\* first two and the last EEG rows and the stimulus row; every column of
\* the first and the last trial, and of every trial the columns at both
\* ends and around the stimulus onset; of the last row every column
RowInputs == {0, 1, NChan - 1, NChan}

ClassInputs == {0, NumClasses - 1}

TimeInputs(len) == {0, 1, StimOnset - 1, StimOnset, StimOnset + 1, len - 1}

ColInputs(ds) ==
    LET len == RunShape(ds)[2] \div NumClasses
    IN {c * len + t : c \in ClassInputs, t \in 0..(len - 1)}
       \cup {c * len + t : c \in 0..(NumClasses - 1), t \in TimeInputs(len)}

NextLoad ==
    \/ \E ds \in Datasets : Begin("A", "load", ds, 1, FALSE)
    \/ Resolve("A")
    \/ Exists("A")
    \/ Extract("A")
    \/ Load("A")
    \/ /\ pc["A"] = "done"
       /\ \E i \in 0..(NumRuns(args["A"].ds) - 1), row \in RowInputs,
             col \in ColInputs(args["A"].ds) : ReadSample("A", i, row, col)
    \/ /\ pc["A"] = "done"
       /\ \E i \in 0..(NumRuns(args["A"].ds) - 1),
             col \in 0..(RunShape(args["A"].ds)[2] - 1) :
              ReadSample("A", i, RunShape(args["A"].ds)[1] - 1, col)
    \/ Finish("A")

SpecLoad == Init /\ [][NextLoad]_vars
(***************************************************************************)
(* Properties                                                              *)
(***************************************************************************)
\* The subject lists as the datasets document them
InList(ds, s) ==
    \/ ds = "wang2016" /\ 1 <= s /\ s <= 35
    \/ ds = "beta" /\ 1 <= s /\ s <= 70

Called(p) == args[p].kind # "none"

\* C1: a call of data_path or of _get_single_subject_data, of either
\* dataset, with a subject id outside the dataset's list raises ValueError
\* and has performed no I/O step: nothing resolved, checked, extracted or
\* loaded, nothing written to the cache, nothing returned.
C1_InvalidSubjectRaisesBeforeIO ==
    \A p \in Callers :
        (Called(p) /\ ~InList(args[p].ds, args[p].subject)) =>
            /\ pc[p] = "raised"
            /\ err[p] = "ValueError"
            /\ log[p] = <<>>
            /\ fs = {}
            /\ file_dest[p] = NoPath
            /\ dests[p] = NoPath
            /\ sess[p] = {}

\* The loader was called for BETA with subject 71 and has raised.
C1_Witness ==
    /\ args["A"] = [kind |-> "load", ds |-> "beta", subject |-> 71, force_update |-> FALSE]
    /\ pc["A"] = "raised"

\* The archive of the decade that contains s: S{a}-S{a+9}.mat.zip with
\* a = 10*floor((s-1)/10)+1
DecadeArchive(s) ==
    LET a == 10 * ((s - 1) \div 10) + 1
    IN <<"S">> \o FormatD(a) \o <<"-", "S">> \o FormatD(a + 9)
         \o <<".", "m", "a", "t", ".", "z", "i", "p">>

\* C2: for every BETA subject s in 1..70, data_path resolves the archive of
\* the decade that contains s and returns the path S{s}.mat in the
\* directory of that archive.
C2_BetaDecadeArchive ==
    \A p \in Callers :
        (args[p].ds = "beta" /\ args[p].subject \in 1..70) =>
            /\ pc[p] \in {"check", "extract", "returned", "loadmat", "done"} =>
                  /\ file_dest[p].name = DecadeArchive(args[p].subject)
                  /\ file_dest[p] \in fs
            /\ pc[p] \in {"returned", "loadmat", "done"} =>
                  /\ dests[p].dir = file_dest[p].dir
                  /\ dests[p].name = <<"S">> \o FormatD(args[p].subject)
                                        \o <<".", "m", "a", "t">>
            /\ pc[p] = "raised" => err[p] = "DownloadError"

\* data_path has returned for subject 70, out of S61-S70.mat.zip.
C2_Witness ==
    /\ args["A"].ds = "beta"
    /\ args["A"].subject = 70
    /\ pc["A"] = "returned"
    /\ file_dest["A"].name
         = <<"S", "6", "1", "-", "S", "7", "0", ".", "m", "a", "t", ".", "z", "i", "p">>
    /\ dests["A"].name = <<"S", "7", "0", ".", "m", "a", "t">>

Extracted(p) == \E k \in 1..Len(log[p]) : log[p][k] = "extract"

\* The earlier successful returns that a call for the same subject, or for
\* a BETA subject of the same decade, comes after
EarlierReturns(p) ==
    {r \in warm[p] :
        /\ r.ds = args[p].ds
        /\ \/ r.subject = args[p].subject
           \/ /\ r.ds = "beta"
              /\ (r.subject - 1) \div 10 = (args[p].subject - 1) \div 10}

\* C3: once data_path has returned for a subject, every later call for the
\* same subject on the same cache directory (and for BETA every later call
\* for a subject of the same decade), with any force_update, performs no
\* archive extraction, and what it returns is an existing file and the same
\* path as before.
C3_NoSecondExtraction ==
    \A p \in Callers :
        EarlierReturns(p) # {} =>
            /\ pc[p] # "extract"
            /\ ~Extracted(p)
            /\ pc[p] = "returned" =>
                  /\ dests[p] \in fs
                  /\ \A r \in EarlierReturns(p) :
                        r.subject = args[p].subject => dests[p] = r.path

\* A forced call for BETA subject 10 has returned after subject 9 had.
C3_Witness ==
    \E p \in Callers :
        /\ pc[p] = "returned"
        /\ args[p].ds = "beta"
        /\ args[p].subject = 10
        /\ args[p].force_update
        /\ \E r \in EarlierReturns(p) : r.subject = 9
        /\ log[p] = <<"resolve", "exists">>

\* The existence check of caller p finding the file missing
ExistsMissing(p) == Exists(p) /\ pc'[p] = "extract"

\* C9: the existence check and the extraction are not serialised: while one
\* caller is between its check and its extraction, another caller whose
\* file is still absent from the same directory can pass its own check and
\* go on to extract the same archive.
C9_CheckNotSerialised ==
    \A p \in Callers : \A q \in Callers \ {p} :
        (/\ pc[p] = "check"
         /\ pc[q] = "extract"
         /\ file_dest[p] = file_dest[q]
         /\ Target(args[p].ds, file_dest[p], args[p].subject) \notin fs)
            => ENABLED ExistsMissing(p)

\* Two calls for BETA subjects 9 and 10 have both extracted S1-S10.mat.zip.
C9_Witness ==
    /\ args["A"].ds = "beta" /\ args["A"].subject = 9
    /\ args["B"].ds = "beta" /\ args["B"].subject = 10
    /\ pc["A"] = "returned" /\ pc["B"] = "returned"
    /\ Extracted("A") /\ Extracted("B")

Loaded(p) == pc[p] \in {"done", "read"}

AllRuns(p) == UNION {s.runs : s \in sess[p]}

\* The call failed in the loader's own part, after data_path had returned
LoadFailed(p) == pc[p] = "raised" /\ Len(log[p]) > 0 /\ log[p][Len(log[p])] = "load"

\* Blocks of the file on disk
Blocks(ds) == IF ds = "wang2016" THEN WangBlocks ELSE BetaBlocks

\* The sample on disk of channel ch, time t, class c, block b, in the
\* documented axis order of each file
OnDisk(ds, ch, t, c, b) ==
    IF ds = "wang2016" THEN RawMat(ds, <<ch, t, c, b>>) ELSE RawMat(ds, <<ch, t, b, c>>)

\* C4: for a valid subject the loader returns one session, 'session_0',
\* with one run per block of the on-disk tensor, keyed run_0 .. run_{B-1};
\* run b has C+1 rows and 40*T columns, and its entry at EEG row ch and
\* column c*T+t is the on-disk sample of channel ch, time t, class c,
\* block b times 1e-6.
C4_RunsPerBlock ==
    /\ \A p \in Callers :
          Loaded(p) =>
              /\ {s.key : s \in sess[p]} = {"session_0"}
              /\ Cardinality(sess[p]) = 1
              /\ Cardinality(AllRuns(p)) = Blocks(args[p].ds)
              /\ {r.key : r \in AllRuns(p)}
                    = {<<"r", "u", "n", "_">> \o FormatD(b) :
                          b \in 0..(Blocks(args[p].ds) - 1)}
              /\ \A r \in AllRuns(p) :
                    /\ r.key = <<"r", "u", "n", "_">> \o FormatD(r.index)
                    /\ r.shape = <<NChan + 1, NumClasses * NTime>>
    /\ \A p \in Callers : ~LoadFailed(p)
    /\ (probe.ds # "none" /\ probe.row < NChan) =>
          LET c == probe.col \div NTime
              t == probe.col % NTime
              x == OnDisk(probe.ds, probe.row, t, c, probe.run)
          IN probe.val = [m |-> x.m, e |-> x.e - 6]

\* The last sample of the last trial of the last EEG row of BETA's last run
C4_Witness ==
    /\ pc["A"] = "read"
    /\ probe.ds = "beta"
    /\ probe.run = BetaBlocks - 1
    /\ probe.row = NChan - 1
    /\ probe.col = NumClasses * NTime - 1
    /\ probe.val.e = -6

\* C5: in every run of either loader the last row is zero everywhere but
\* at offset 125 of each trial (column c*T+125), where it holds the class
\* index c+1, for every block and every class, unscaled.
C5_StimulusRow ==
    (probe.ds # "none" /\ probe.row = NChan) =>
        LET c == probe.col \div NTime
            t == probe.col % NTime
        IN /\ c \in 0..(NumClasses - 1)
           /\ probe.val = IF t = 125 THEN [m |-> c + 1, e |-> 0] ELSE [m |-> 0, e |-> 0]

\* The marker of class 40 in the last Wang2016 run
C5_Witness ==
    /\ pc["A"] = "read"
    /\ probe.ds = "wang2016"
    /\ probe.run = WangBlocks - 1
    /\ probe.row = NChan
    /\ probe.col = (NumClasses - 1) * NTime + 125
    /\ probe.val = [m |-> 40, e |-> 0]

Range(seq) == {seq[k] : k \in 1..Len(seq)}

\* C6 as stated: the channel-name list of every recording has 69 entries
\* (64 EEG names, 4 inserted or appended names, 1 stimulus name).
C6_SixtyNineNames ==
    \A p \in Callers : Loaded(p) => \A r \in AllRuns(p) : Len(r.ch_names) = 69

\* C6 amended: the channel-name list of every recording has 65 entries,
\* all different: the 60 names of _CHANNELS, the 4 names M1, M2, CB1 and
\* CB2, and the stimulus channel name.
C6_SixtyFiveNames ==
    /\ Len(CHANNELS) = 60
    /\ \A p \in Callers : ~LoadFailed(p)
    /\ \A p \in Callers :
          Loaded(p) =>
              \A r \in AllRuns(p) :
                  /\ Len(r.ch_names) = 65
                  /\ Cardinality(Range(r.ch_names)) = 65
                  /\ Range(r.ch_names)
                        = Range(CHANNELS) \cup {"M1", "M2", "CB1", "CB2"} \cup {"STI 014"}

\* Wang2016 subject 1 is loaded and its recordings carry 65 names.
C6_Witness ==
    /\ pc["A"] = "done"
    /\ args["A"].ds = "wang2016"
    /\ \E r \in AllRuns("A") : Len(r.ch_names) = 65 /\ r.ch_names[65] = "STI 014"

\* C7: in the layout of both loaders exactly three entries are not of type
\* 'eeg': 'misc' at indices 59 and 63 and 'stim' at the last index; the
\* names there are CB1, CB2 and 'STI 014'; M1 at index 32 and M2 at index
\* 42 are of type 'eeg'.  (0-based indices; sequences here count from 1.)
C7_NonEegEntries ==
    /\ \A p \in Callers : ~LoadFailed(p)
    /\ \A p \in Callers :
          Loaded(p) =>
              \A r \in AllRuns(p) :
                  LET last == Len(r.ch_types)
                  IN /\ {k \in 1..last : r.ch_types[k] # "eeg"} = {59 + 1, 63 + 1, last}
                     /\ r.ch_types[59 + 1] = "misc"
                     /\ r.ch_types[63 + 1] = "misc"
                     /\ r.ch_types[last] = "stim"
                     /\ r.ch_names[59 + 1] = "CB1"
                     /\ r.ch_names[63 + 1] = "CB2"
                     /\ r.ch_names[last] = "STI 014"
                     /\ r.ch_names[32 + 1] = "M1"
                     /\ r.ch_names[42 + 1] = "M2"
                     /\ Len(r.ch_names) = last

\* BETA subject 1 is loaded; CB1 carries 'misc' and M1 carries 'eeg'.
C7_Witness ==
    /\ pc["A"] = "done"
    /\ args["A"].ds = "beta"
    /\ \E r \in AllRuns("A") :
          /\ r.ch_names[60] = "CB1" /\ r.ch_types[60] = "misc"
          /\ r.ch_names[33] = "M1" /\ r.ch_types[33] = "eeg"

\* C8 as stated: after the permutation the tensor of both datasets has the
\* axis order (channel, block, class, time).
C8_SameAxisOrder ==
    \A p \in Callers :
        Loaded(p) => data[p].axes = <<"channel", "block", "class", "time">>

\* C8 amended: after the permutation Wang2016's tensor has the axis order
\* (channel, block, class, time) and BETA's (channel, class, block, time):
\* channel first and time last in both, the block axis at position 1 for
\* Wang2016 and at position 2 for BETA; the element at (ch, b, c, t) of
\* Wang2016's tensor and at (ch, c, b, t) of BETA's is the sample that run
\* b holds at row ch and column c*T+t.
C8_AxisOrderPerDataset ==
    /\ \A p \in Callers :
          Loaded(p) =>
              IF args[p].ds = "wang2016"
              THEN /\ data[p].axes = <<"channel", "block", "class", "time">>
                   /\ data[p].shape = <<NChan + 1, WangBlocks, NumClasses, NTime>>
              ELSE /\ data[p].axes = <<"channel", "class", "block", "time">>
                   /\ data[p].shape = <<NChan + 1, NumClasses, BetaBlocks, NTime>>
    /\ probe.ds # "none" =>
          LET c == probe.col \div NTime
              t == probe.col % NTime
          IN probe.val = IF probe.ds = "wang2016"
                         THEN Data(probe.ds, <<probe.row, probe.run, c, t>>)
                         ELSE Data(probe.ds, <<probe.row, c, probe.run, t>>)

\* BETA subject 1 is loaded and axis 1 of its tensor is the class axis.
C8_Witness ==
    /\ pc["A"] = "done"
    /\ args["A"].ds = "beta"
    /\ data["A"].axes[2] = "class"
    /\ data["A"].shape[2] = NumClasses

\* C10: for every run built from an on-disk tensor with 64 channels the
\* number of channel names, the number of channel types and the number of
\* rows of the run's data are equal, the stimulus row included.
C10_ChannelCountsAgree ==
    /\ \A p \in Callers : ~LoadFailed(p)
    /\ \A p \in Callers :
          Loaded(p) =>
              \A r \in AllRuns(p) :
                  /\ Len(r.ch_names) = Len(r.ch_types)
                  /\ Len(r.ch_names) = r.shape[1]
                  /\ r.shape[1] = data[p].shape[1]
                  /\ r.shape[1] = 64 + 1

\* Wang2016 subject 1 is loaded from a 64-channel file; run 1 has 65 rows.
C10_Witness ==
    /\ pc["A"] = "done"
    /\ args["A"].ds = "wang2016"
    /\ DiskShape("wang2016")[1] = 64
    /\ \E r \in AllRuns("A") : r.index = 1 /\ r.shape[1] = 65 /\ Len(r.ch_types) = 65
====
